---------------------------- MODULE Spec2Model ----------------------------
(***************************************************************************)
(* A model of jsonToIff.py: the conversion of a JSON document into a       *)
(* fixed-width "IFF" file whose columns are described by a schema file.    *)
(*                                                                         *)
(* Text is modelled as a sequence of one-character strings, so that        *)
(* lengths, slices, padding and concatenation are those of Python's str.   *)
(* A Python call that may raise is modelled by a result record:            *)
(*   [ok |-> TRUE, val |-> v]   the call returned v                        *)
(*   [ok |-> FALSE, exc |-> e]  the call raised the exception class e      *)
(***************************************************************************)
EXTENDS Integers, Sequences, FiniteSets, TLC

VARIABLES
    fs,             \* the files the run reads: configuration, schema, JSON
    pc,             \* the position of the run in __main__ / main
    metadata,       \* main: metadata, the list read_metadata returned
    json_data,      \* process_json: json_data after lines 68-69 (a list)
    lines,          \* process_json: lines
    i,              \* process_json: index of the next item of the for loop
    iff_file,       \* the primary output file: NoFile or the strings written
    backup_file,    \* the backup output file: NoFile or the strings written
    log,            \* the levels of the records logged so far
    exit_status     \* the process's exit status, NoExit while it runs

vars == <<fs, pc, metadata, json_data, lines, i, iff_file, backup_file, log, exit_status>>

-----------------------------------------------------------------------------
(* Python values and exceptions *)

Ok(v) == [ok |-> TRUE, val |-> v]

Raise(e) == [ok |-> FALSE, exc |-> e]

Min(a, b) == IF a <= b THEN a ELSE b

Max(a, b) == IF a >= b THEN a ELSE b

\* A str value.
Str(s) == [t |-> "str", s |-> s]

\* An int value (a JSON integer).
IntV(v) == [t |-> "int", v |-> v]

\* A finite float whose repr is [-]ip[.fp][ex]: fp is the digits after the
\* point (<<>> when the repr has no point), ex the exponent suffix (<<>> when
\* the repr is positional).
Float(neg, ip, fp, ex) == [t |-> "float", cls |-> "fin", neg |-> neg, ip |-> ip, fp |-> fp, ex |-> ex]

Inf(neg) == [t |-> "float", cls |-> "inf", neg |-> neg, ip |-> 0, fp |-> <<>>, ex |-> <<>>]

NaN == [t |-> "float", cls |-> "nan", neg |-> FALSE, ip |-> 0, fp |-> <<>>, ex |-> <<>>]

Bool(b) == [t |-> "bool", b |-> b]

None == [t |-> "None"]

\* A list value with the given items.
List(xs) == [t |-> "list", items |-> xs]

\* A dict value: d is a function from its keys to their values.
Dict(d) == [t |-> "dict", d |-> d]

EmptyDict == Dict([k \in {} |-> None])

-----------------------------------------------------------------------------
(* Python text *)

Digits == <<"0", "1", "2", "3", "4", "5", "6", "7", "8", "9">>

DigitChar(d) == Digits[d + 1]

IsDigit(c) == \E d \in 0..9 : c = DigitChar(d)

DigitVal(c) == CHOOSE d \in 0..9 : c = DigitChar(d)

\* ' ' * n: the empty text when n <= 0.
Spaces(n) == [k \in 1..n |-> " "]

\* s.rjust(w, ' '): the padding on the wrong side.
rjust(s, w) == IF Len(s) >= w THEN s ELSE Spaces(w - Len(s)) \o s

\* s.ljust(w, ' ')
ljust(s, w) == IF Len(s) >= w THEN s ELSE s \o Spaces(w - Len(s))

\* s[:n], with Python's meaning of a negative n.
SliceTo(s, n) ==
    IF n >= 0 THEN SubSeq(s, 1, Min(n, Len(s)))
    ELSE SubSeq(s, 1, Max(Len(s) + n, 0))

\* The decimal digits of a natural number.
RECURSIVE NatStr(_)
NatStr(n) == IF n < 10 THEN <<DigitChar(n)>> ELSE NatStr(n \div 10) \o <<DigitChar(n % 10)>>

\* str(v) of an int.
IntStr(v) == IF v < 0 THEN <<"-">> \o NatStr(-v) ELSE NatStr(v)

\* Digits with a comma before every group of three counted from the right.
RECURSIVE GroupThousands(_)
GroupThousands(ds) ==
    IF Len(ds) <= 3 THEN ds
    ELSE GroupThousands(SubSeq(ds, 1, Len(ds) - 3)) \o <<",">> \o SubSeq(ds, Len(ds) - 2, Len(ds))

\* f"{v:,}" of an int.
FormatComma(v) == IF v < 0 THEN <<"-">> \o GroupThousands(NatStr(-v)) ELSE GroupThousands(NatStr(v))

\* The index of the first '.' of a text that holds one.
FirstDot(s) == CHOOSE k \in 1..Len(s) : s[k] = "." /\ \A j \in 1..(k - 1) : s[j] # "."

\* s.split('.')
RECURSIVE SplitDot(_)
SplitDot(s) ==
    IF \A k \in 1..Len(s) : s[k] # "." THEN <<s>>
    ELSE <<SubSeq(s, 1, FirstDot(s) - 1)>> \o SplitDot(SubSeq(s, FirstDot(s) + 1, Len(s)))

\* The indices of the characters of s that are no spaces.
Inked(s) == {k \in 1..Len(s) : s[k] # " "}

\* s.strip() for spaces: from the first to the last character that is none.
Strip(s) ==
    IF Inked(s) = {} THEN <<>>
    ELSE SubSeq(s, CHOOSE k \in Inked(s) : \A j \in Inked(s) : k <= j,
                   CHOOSE k \in Inked(s) : \A j \in Inked(s) : k >= j)

AllDigits(s) == \A k \in 1..Len(s) : IsDigit(s[k])

\* The value of the first n digits of a run of digits.
RECURSIVE DigitsValTo(_, _)
DigitsValTo(s, n) == IF n = 0 THEN 0 ELSE 10 * DigitsValTo(s, n - 1) + DigitVal(s[n])

\* The value of a (possibly empty) run of digits.
DigitsVal(s) == DigitsValTo(s, Len(s))

\* Digits without their trailing zeros.
DropTrailingZeros(s) ==
    SubSeq(s, 1, CHOOSE n \in 0..Len(s) :
        /\ \A k \in (n + 1)..Len(s) : s[k] = "0"
        /\ n > 0 => s[n] # "0")

\* Whether a text starts with '-', and the text without its sign.
HasMinus(s) == s # <<>> /\ Head(s) = "-"

Unsigned(s) == IF s # <<>> /\ Head(s) \in {"-", "+"} THEN Tail(s) ELSE s

\* int(s) of a text: an optional sign and at least one digit.
int(s) ==
    IF Unsigned(s) # <<>> /\ AllDigits(Unsigned(s))
    THEN Ok(IF HasMinus(s) THEN -DigitsVal(Unsigned(s)) ELSE DigitsVal(Unsigned(s)))
    ELSE Raise("ValueError")

\* The digits after the point of the float that a text with the fraction
\* digits ds denotes.
FracDigits(ds) == IF DropTrailingZeros(ds) = <<>> THEN <<"0">> ELSE DropTrailingZeros(ds)

\* The float of a sign and the parts split('.') finds in a text of digits:
\* at most one point, and a digit on one side of it.
FloatOfParts(neg, ps) ==
    IF Len(ps) = 1 /\ ps[1] # <<>> /\ AllDigits(ps[1])
        THEN Ok(Float(neg, DigitsVal(ps[1]), <<"0">>, <<>>))
    ELSE IF Len(ps) = 2 /\ AllDigits(ps[1]) /\ AllDigits(ps[2]) /\ (ps[1] # <<>> \/ ps[2] # <<>>)
        THEN Ok(Float(neg, DigitsVal(ps[1]), FracDigits(ps[2]), <<>>))
    ELSE Raise("ValueError")

\* The float of a text without surrounding spaces: an optional sign, then
\* "inf", "nan" or a decimal numeral.
FloatOfStripped(t) ==
    IF Unsigned(t) = <<"i", "n", "f">> THEN Ok(Inf(HasMinus(t)))
    ELSE IF Unsigned(t) = <<"n", "a", "n">> THEN Ok(NaN)
    ELSE FloatOfParts(HasMinus(t), SplitDot(Unsigned(t)))

\* float(s) of a text: surrounding spaces are ignored.
FloatOfText(s) == FloatOfStripped(Strip(s))

\* float(value)
float(value) ==
    CASE value.t = "str"   -> FloatOfText(value.s)
      [] value.t = "int"   -> Ok(Float(value.v < 0, IF value.v < 0 THEN -value.v ELSE value.v, <<"0">>, <<>>))
      [] value.t = "float" -> Ok(value)
      [] value.t = "bool"  -> Ok(Float(FALSE, IF value.b THEN 1 ELSE 0, <<"0">>, <<>>))
      [] OTHER             -> Raise("TypeError")

\* str(f) of a float.
FloatStr(f) ==
    CASE f.cls = "nan" -> <<"n", "a", "n">>
      [] f.cls = "inf" -> (IF f.neg THEN <<"-">> ELSE <<>>) \o <<"i", "n", "f">>
      [] OTHER         -> (IF f.neg THEN <<"-">> ELSE <<>>) \o NatStr(f.ip)
                            \o (IF f.fp = <<>> THEN <<>> ELSE <<".">> \o f.fp) \o f.ex

\* str(value). The items of a list or dict that is not empty are elided: the
\* lists and dicts the model stores under a field name are empty.
str(value) ==
    CASE value.t = "str"   -> value.s
      [] value.t = "int"   -> IntStr(value.v)
      [] value.t = "float" -> FloatStr(value)
      [] value.t = "bool"  -> IF value.b THEN <<"T", "r", "u", "e">> ELSE <<"F", "a", "l", "s", "e">>
      [] value.t = "None"  -> <<"N", "o", "n", "e">>
      [] value.t = "list"  -> <<"[">> \o (IF value.items = <<>> THEN <<>> ELSE <<".", ".", ".">>) \o <<"]">>
      [] OTHER             -> <<"{">> \o (IF DOMAIN value.d = {} THEN <<>> ELSE <<".", ".", ".">>) \o <<"}">>

-----------------------------------------------------------------------------
(* Field formatting: format_number and format_field *)

\* value == ""
IsEmptyStr(value) == value.t = "str" /\ value.s = <<>>

\* value is None
IsNone(value) == value.t = "None"

\* Line 49: f"{int(integer_part):,}.{decimal_part}".
JoinNumber(ip, decimal_part) ==
    IF ~ip.ok THEN ip ELSE Ok(FormatComma(ip.val) \o <<".">> \o decimal_part)

\* Lines 48-49 on the parts of str(float_value).split('.'): the unpacking into
\* two names raises a ValueError unless there are exactly two parts.
FormatParts(parts) ==
    IF Len(parts) # 2 THEN Raise("ValueError") ELSE JoinNumber(int(parts[1]), parts[2])

\* Lines 47-49 on the result of float(value).
FormatFloat(fv) == IF ~fv.ok THEN fv ELSE FormatParts(SplitDot(FloatStr(fv.val)))

\* Lines 47-49: formatted_number, or the exception raised on the way.
FormattedNumber(value) == FormatFloat(float(value))

\* Lines 50-54 on formatted_number. Every ValueError of the try block is
\* raised again as a ValueError; any other exception passes through.
FitNumber(fn, length) ==
    IF ~fn.ok THEN fn
    ELSE IF Len(fn.val) > length THEN Raise("ValueError")
    ELSE Ok(ljust(fn.val, length))

\* format_number(value, length)
format_number(value, length) ==
    IF IsEmptyStr(value) \/ IsNone(value) THEN Ok(Spaces(length))
    ELSE FitNumber(FormattedNumber(value), length)

\* format_field(value, field_type, length)
format_field(value, field_type, length) ==
    IF field_type = "Number" THEN format_number(value, length)
    ELSE Ok(ljust(SliceTo(str(value), length), length))

-----------------------------------------------------------------------------
(* Record assembly: the body of process_json's loop *)

\* A schema row: the tuple read_metadata appends.
Row(position, field_name, field_type, length) ==
    [position |-> position, field_name |-> field_name, field_type |-> field_type, length |-> length]

\* The place of rows[k] in a sort that is not stable: rows of equal position
\* come out in the reverse of their order.
SortedIndexUnstable(rows, k) ==
    1 + Cardinality({j \in 1..Len(rows) :
            \/ rows[j].position < rows[k].position
            \/ rows[j].position = rows[k].position /\ j > k})

\* The place of rows[k] in the sorted list: after every row of smaller
\* position, and after the rows of equal position that come before it.
SortedIndex(rows, k) ==
    1 + Cardinality({j \in 1..Len(rows) :
            \/ rows[j].position < rows[k].position
            \/ rows[j].position = rows[k].position /\ j < k})

\* sorted(metadata, key=lambda x: x[0]): a new list, stably sorted.
sorted(rows) ==
    [n \in 1..Len(rows) |-> rows[CHOOSE k \in 1..Len(rows) : SortedIndex(rows, k) = n]]

\* item.get(field_name, "")
get(item, field_name) == IF field_name \in DOMAIN item.d THEN item.d[field_name] ELSE Str(<<>>)

\* Lines 79-83 with a substitute of no characters for a field in error.
CatchValueErrorNoBlank(r, length) ==
    IF r.ok THEN [ok |-> TRUE, val |-> r.val, exc |-> "", logged |-> FALSE]
    ELSE IF r.exc = "ValueError" THEN [ok |-> TRUE, val |-> <<>>, exc |-> "", logged |-> TRUE]
    ELSE [ok |-> FALSE, val |-> <<>>, exc |-> r.exc, logged |-> FALSE]

\* Lines 79-83 on the result r of format_field: the formatted field, blanks
\* when format_field raised a ValueError (an error is then logged), or the
\* exception that passes through the except clause.
CatchValueError(r, length) ==
    IF r.ok THEN [ok |-> TRUE, val |-> r.val, exc |-> "", logged |-> FALSE]
    ELSE IF r.exc = "ValueError" THEN [ok |-> TRUE, val |-> Spaces(length), exc |-> "", logged |-> TRUE]
    ELSE [ok |-> FALSE, val |-> <<>>, exc |-> r.exc, logged |-> FALSE]

\* Lines 78-83 for one schema row.
FieldOf(item, row) ==
    CatchValueError(format_field(get(item, row.field_name), row.field_type, row.length), row.length)

\* The number of rows the loop of line 77 passes: it ends at the first row
\* whose field raises what line 81 does not catch.
FieldsDone(fields) ==
    IF \A k \in 1..Len(fields) : fields[k].ok THEN Len(fields)
    ELSE (CHOOSE k \in 1..Len(fields) : ~fields[k].ok /\ \A j \in 1..(k - 1) : fields[j].ok) - 1

\* Lines 76-84 given the outcome of lines 78-83 for every row, n of which the
\* loop passes: the fields formatted, the log records written, and the
\* exception that ended the loop ("" when none did).
CollectFields(fields, n) ==
    [fields |-> [k \in 1..n |-> fields[k].val],
     log    |-> [k \in 1..Cardinality({j \in 1..n : fields[j].logged}) |-> "ERROR"],
     exc    |-> IF n = Len(fields) THEN "" ELSE fields[n + 1].exc]

\* The outcome of lines 78-83 for every row.
AllFields(item, rows) == [k \in 1..Len(rows) |-> FieldOf(item, rows[k])]

\* Lines 76-84 over the rows in order.
FormatFields(item, rows) == CollectFields(AllFields(item, rows), FieldsDone(AllFields(item, rows)))

\* The first n fields, concatenated.
RECURSIVE JoinTo(_, _)
JoinTo(fields, n) == IF n = 0 THEN <<>> ELSE JoinTo(fields, n - 1) \o fields[n]

\* ''.join(formatted_fields)
join(fields) == JoinTo(fields, Len(fields))

\* Lines 76-85 for one dict item.
LineOf(item, rows) == FormatFields(item, sorted(rows))

\* Lines 68-69 without the wrapping of a json_data that is not a list.
AsListNoWrap(doc) == IF doc.t = "list" THEN doc.items ELSE <<>>

\* Lines 68-69: a json_data that is not a list becomes a one-element list.
AsList(doc) == IF doc.t = "list" THEN doc.items ELSE <<doc>>

-----------------------------------------------------------------------------
(* The header and the rows of the output files *)

\* f"{n:06}": at least six digits, zero-padded on the left.
ZeroPad6(n) == LET ds == NatStr(n) IN [k \in 1..(6 - Len(ds)) |-> "0"] \o ds

\* Lines 108-110.
max_data_row_length(ls) == IF ls = <<>> THEN 0 ELSE CHOOSE m \in {Len(ls[k]) : k \in 1..Len(ls)} : \A k \in 1..Len(ls) : Len(ls[k]) <= m

max_row_length(ls, name) == Max(max_data_row_length(ls), Len(name) + 6)

\* Line 112.
header_line(ls, name) == ljust(ZeroPad6(max_row_length(ls, name)) \o name, max_row_length(ls, name))

\* The primary file written as the backup file is: data lines not padded.
PrimaryRowsUnpadded(ls, name) == <<header_line(ls, name)>> \o ls

\* Lines 121-124: what the primary file holds after the with block.
PrimaryRows(ls, name) == <<header_line(ls, name)>> \o [k \in 1..Len(ls) |-> ljust(ls[k], max_row_length(ls, name))]

\* Lines 131-133: what the backup file holds after the with block.
BackupRows(ls, name) == <<header_line(ls, name)>> \o ls

-----------------------------------------------------------------------------
(* The run: __main__ and main *)

NoFile == [exists |-> FALSE, rows |-> <<>>]

File(rows) == [exists |-> TRUE, rows |-> rows]

\* exit_status while the process runs, and after sys.exit(n) or a normal end.
Running == <<>>

Exited(n) == <<n>>

Init0 ==
    /\ pc = "start"
    /\ metadata = <<>>
    /\ json_data = <<>>
    /\ lines = <<>>
    /\ i = 1
    /\ iff_file = NoFile
    /\ backup_file = NoFile
    /\ log = <<>>
    /\ exit_status = Running

\* An exit after logging.error that reports success.
ExitWithoutError ==
    /\ pc' = "exit"
    /\ exit_status' = Exited(0)
    /\ log' = Append(log, "ERROR")

\* sys.exit(1), after logging.error or, at lines 150-152, logging.exception.
ExitWithError ==
    /\ pc' = "exit"
    /\ exit_status' = Exited(1)
    /\ log' = Append(log, "ERROR")

\* Lines 144-146: the configuration file does not exist.
ConfigMissing ==
    /\ pc = "start"
    /\ fs.config = "missing"
    /\ ExitWithError
    /\ UNCHANGED <<fs, metadata, json_data, lines, i, iff_file, backup_file>>

\* read_config, lines 23-25: the configuration file cannot be read.
ReadConfigFails ==
    /\ pc = "start"
    /\ fs.config = "unreadable"
    /\ ExitWithError
    /\ UNCHANGED <<fs, metadata, json_data, lines, i, iff_file, backup_file>>

\* read_config, line 21, and main, lines 92-94: a line without '=' raises a
\* ValueError and a missing key a KeyError; read_config catches neither, and
\* lines 150-152 catch them.
ReadConfigBadLine ==
    /\ pc = "start"
    /\ fs.config = "malformed"
    /\ ExitWithError
    /\ UNCHANGED <<fs, metadata, json_data, lines, i, iff_file, backup_file>>

\* Lines 91-94: read_config and setup_logging.
ReadConfig ==
    /\ pc = "start"
    /\ fs.config = "ok"
    /\ pc' = "metadata"
    /\ UNCHANGED <<fs, metadata, json_data, lines, i, iff_file, backup_file, log, exit_status>>

\* read_metadata, lines 37-39: the schema file cannot be opened.
ReadMetadataIOError ==
    /\ pc = "metadata"
    /\ fs.schema.status = "unreadable"
    /\ ExitWithError
    /\ UNCHANGED <<fs, metadata, json_data, lines, i, iff_file, backup_file>>

\* read_metadata, lines 35-36: a row with fewer than four columns, or whose
\* position or length is no integer, raises a ValueError that read_metadata
\* does not catch; lines 150-152 catch it.
ReadMetadataBadRow ==
    /\ pc = "metadata"
    /\ fs.schema.status = "badrow"
    /\ ExitWithError
    /\ UNCHANGED <<fs, metadata, json_data, lines, i, iff_file, backup_file>>

\* read_metadata returns, line 96.
ReadMetadata ==
    /\ pc = "metadata"
    /\ fs.schema.status = "ok"
    /\ metadata' = fs.schema.rows
    /\ pc' = "json"
    /\ UNCHANGED <<fs, json_data, lines, i, iff_file, backup_file, log, exit_status>>

\* Lines 100-102: the JSON file cannot be read or is not JSON.
LoadJsonFails ==
    /\ pc = "json"
    /\ fs.json.status \in {"unreadable", "invalid"}
    /\ ExitWithError
    /\ UNCHANGED <<fs, metadata, json_data, lines, i, iff_file, backup_file>>

\* Lines 97-99, and the entry of process_json, lines 66-69.
LoadJson ==
    /\ pc = "json"
    /\ fs.json.status = "ok"
    /\ json_data' = AsList(fs.json.doc)
    /\ lines' = <<>>
    /\ i' = 1
    /\ pc' = "process"
    /\ UNCHANGED <<fs, metadata, iff_file, backup_file, log, exit_status>>

\* Lines 72-74: an item that is not a dict is skipped with a warning.
SkipItem ==
    /\ pc = "process"
    /\ i <= Len(json_data)
    /\ json_data[i].t # "dict"
    /\ log' = Append(log, "WARNING")
    /\ i' = i + 1
    /\ UNCHANGED <<fs, pc, metadata, json_data, lines, iff_file, backup_file, exit_status>>

\* Lines 76-86: the line of a dict item is appended.
BuildLine ==
    /\ pc = "process"
    /\ i <= Len(json_data)
    /\ json_data[i].t = "dict"
    /\ \E r \in {LineOf(json_data[i], metadata)} :
           /\ r.exc = ""
           /\ lines' = Append(lines, join(r.fields))
           /\ log' = log \o r.log
    /\ i' = i + 1
    /\ UNCHANGED <<fs, pc, metadata, json_data, iff_file, backup_file, exit_status>>

\* Lines 76-84 and 150-152: format_field raises an exception that is no
\* ValueError; it leaves process_json and main, and the process exits.
ItemRaises ==
    /\ pc = "process"
    /\ i <= Len(json_data)
    /\ json_data[i].t = "dict"
    /\ \E r \in {LineOf(json_data[i], metadata)} :
           /\ r.exc # ""
           /\ log' = Append(log \o r.log, "ERROR")
    /\ pc' = "exit"
    /\ exit_status' = Exited(1)
    /\ UNCHANGED <<fs, metadata, json_data, lines, i, iff_file, backup_file>>

\* Lines 104-126: process_json returns and the primary file is written.
WritePrimary ==
    /\ pc = "process"
    /\ i > Len(json_data)
    /\ iff_file' = File(PrimaryRows(lines, fs.name))
    /\ log' = Append(log, "INFO")
    /\ pc' = "backup"
    /\ UNCHANGED <<fs, metadata, json_data, lines, i, backup_file, exit_status>>

\* Lines 128-135: a backup path is configured and the backup file is written.
WriteBackup ==
    /\ pc = "backup"
    /\ fs.backup
    /\ backup_file' = File(BackupRows(lines, fs.name))
    /\ log' = Append(log, "INFO")
    /\ pc' = "exit"
    /\ exit_status' = Exited(0)
    /\ UNCHANGED <<fs, metadata, json_data, lines, i, iff_file>>

\* Line 128: no backup path is configured; main returns.
NoBackup ==
    /\ pc = "backup"
    /\ ~fs.backup
    /\ pc' = "exit"
    /\ exit_status' = Exited(0)
    /\ UNCHANGED <<fs, metadata, json_data, lines, i, iff_file, backup_file, log>>

Next ==
    \/ ConfigMissing
    \/ ReadConfigFails
    \/ ReadConfigBadLine
    \/ ReadConfig
    \/ ReadMetadataIOError
    \/ ReadMetadataBadRow
    \/ ReadMetadata
    \/ LoadJsonFails
    \/ LoadJson
    \/ SkipItem
    \/ BuildLine
    \/ ItemRaises
    \/ WritePrimary
    \/ WriteBackup
    \/ NoBackup

-----------------------------------------------------------------------------
(* The inputs of a run: the files it reads *)

Types == {"Number", "String"}

FieldNames == {"a", "b"}

\* The sequences over S of length at most n.
SeqsUpTo(S, n) == UNION {[1..k -> S] : k \in 0..n}

\* The dicts whose keys are among K and whose values are in V.
DictsOver(K, V) == {Dict(f) : f \in UNION {[D -> V] : D \in SUBSET K}}

SchemaFile(status, rows) == [status |-> status, rows |-> rows]

JsonFile(status, doc) == [status |-> status, doc |-> doc]

Env(config, backup, name, schema, json) ==
    [config |-> config, backup |-> backup, name |-> name, schema |-> schema, json |-> json]

\* The base name of the JSON file, n characters long.
Name(n) == [k \in 1..n |-> "d"]

\* Runs whose files all load: every schema of S with every document of D.
LoadingEnvs(backups, names, S, D) ==
    {Env("ok", b, n, SchemaFile("ok", rows), JsonFile("ok", doc)) :
        b \in backups, n \in names, rows \in S, doc \in D}

\* Runs of every other kind: a file that fails to load at each stage, an item
\* that is no dict, a field value float() rejects with a TypeError, and a
\* configured backup path.
EdgeEnvs ==
    LET rows == <<Row(1, "a", "Number", 3)>>
        doc  == List(<<IntV(7), Dict([k \in {"a"} |-> IntV(5)])>>)
        bad  == List(<<Dict([k \in {"a"} |-> Str(<<"x">>)]), Dict([k \in {"a"} |-> List(<<>>)])>>)
    IN  {Env(c, b, Name(1), SchemaFile("ok", rows), JsonFile("ok", doc)) :
            c \in {"missing", "unreadable", "malformed", "ok"}, b \in BOOLEAN}
        \cup {Env("ok", b, Name(1), SchemaFile(st, <<>>), JsonFile("ok", doc)) :
            st \in {"unreadable", "badrow"}, b \in BOOLEAN}
        \cup {Env("ok", b, Name(1), SchemaFile("ok", rows), JsonFile(st, None)) :
            st \in {"unreadable", "invalid"}, b \in BOOLEAN}
        \cup {Env("ok", b, Name(1), SchemaFile("ok", rows), JsonFile("ok", bad)) : b \in BOOLEAN}

(* Records: schemas of up to MaxFields fields, one dict per document *)

MaxFields == 2

MaxLen == 3

RecordRows == {Row(1, n, t, l) : n \in FieldNames, t \in Types, l \in 1..MaxLen}

RecordValues == {IntV(5), Str(<<"x">>), None, List(<<>>)}

RecordEnvs ==
    LoadingEnvs({FALSE}, {Name(1)}, SeqsUpTo(RecordRows, MaxFields), DictsOver(FieldNames, RecordValues))

Init == fs \in RecordEnvs \cup EdgeEnvs /\ Init0

Spec == Init /\ [][Next]_vars

(* Column order: schemas of up to MaxRows one-character String fields *)

MaxRows == 3

MaxPos == 2

SortRows == {Row(p, n, "String", 1) : p \in 1..MaxPos, n \in FieldNames}

SortDoc == Dict([k \in FieldNames |-> Str(<<k>>)])

SortEnvs == LoadingEnvs({FALSE}, {Name(1)}, SeqsUpTo(SortRows, MaxRows), {SortDoc})

InitSort == fs \in SortEnvs \cup EdgeEnvs /\ Init0

SpecSort == InitSort /\ [][Next]_vars

(* Items: documents of up to MaxItems elements *)

MaxItems == 3

Elements ==
    {Dict([k \in {"a"} |-> Str(<<"x">>)]), Dict([k \in {"a"} |-> Str(<<"y">>)]), EmptyDict,
     IntV(7), Str(<<"x">>), None, List(<<>>)}

ItemDocs == Elements \cup {List(xs) : xs \in SeqsUpTo(Elements, MaxItems)}

ItemEnvs == LoadingEnvs({FALSE}, {Name(1)}, {<<Row(1, "a", "String", 1)>>}, ItemDocs)

InitItems == fs \in ItemEnvs \cup EdgeEnvs /\ Init0

SpecItems == InitItems /\ [][Next]_vars

(* Row widths: lines of up to 2 * MaxWidth characters, names of up to MaxName *)

MaxWidth == 5

MaxName == 3

WidthRows == {Row(1, "a", "String", l) : l \in 1..MaxWidth}

WidthDocs == {List(xs) : xs \in SeqsUpTo({Dict([k \in {"a"} |-> Str(<<"x">>)]), EmptyDict}, 2)}

WidthEnvs ==
    LoadingEnvs(BOOLEAN, {Name(n) : n \in 1..MaxName}, SeqsUpTo(WidthRows, 2), WidthDocs)

InitWidth == fs \in WidthEnvs \cup EdgeEnvs /\ Init0

SpecWidth == InitWidth /\ [][Next]_vars

(* Field formatting: one field of either type and of length up to FmtMaxLen *)

FmtMaxLen == 12

FmtTexts ==
    {<<>>,
     <<"a", "b", "c">>,
     <<"A", "B", "C", "D", "E", "F", "G", "H">>,
     <<"4", "2">>,
     <<"-", "0", ".", "5">>,
     <<"1", "2", "3", "4", ".", "5">>,
     <<" ", "7", " ">>,
     <<"n", "a", "n">>,
     <<"1", ".", "2", ".", "3">>,
     <<"-">>,
     <<"-", "1", "2", "3", "4">>,
     <<".", "5">>,
     <<" ", " ">>,
     <<"0", "0", "7", ".", "5", "0">>}

FmtValues ==
    {Str(s) : s \in FmtTexts}
    \cup {IntV(v) : v \in {0, 5, 42, -7, 1234, -1234567}}
    \cup {Float(neg, 0, <<"5">>, <<>>) : neg \in BOOLEAN}
    \cup {Float(neg, 0, <<"0">>, <<>>) : neg \in BOOLEAN}
    \cup {Float(neg, 1234, <<"2", "5">>, <<>>) : neg \in BOOLEAN}
    \cup {Float(FALSE, 1, <<>>, <<"e", "+", "1", "6">>),
          Float(FALSE, 1, <<"5">>, <<"e", "+", "2", "0">>),
          Float(FALSE, 1, <<>>, <<"e", "-", "0", "5">>),
          Inf(FALSE), Inf(TRUE), NaN, Bool(TRUE), Bool(FALSE), None, List(<<>>), EmptyDict}

FmtRows == {Row(1, "a", t, l) : t \in Types, l \in 1..FmtMaxLen}

FmtEnvs ==
    LoadingEnvs({FALSE}, {Name(1)}, {<<r>> : r \in FmtRows}, DictsOver({"a"}, FmtValues))

InitFmt == fs \in FmtEnvs \cup EdgeEnvs /\ Init0

SpecFmt == InitFmt /\ [][Next]_vars

-----------------------------------------------------------------------------
(* Properties *)

\* process_json has returned to main.
Returned == pc = "backup" \/ (pc = "exit" /\ exit_status = Exited(0))

\* The three files of the run load.
FilesLoad == fs.config = "ok" /\ fs.schema.status = "ok" /\ fs.json.status = "ok"

\* The loop of process_json is past item k: it went on to the next item, or
\* an exception of item k ended the run.
Passed(k) == pc \in {"process", "backup", "exit"} /\ k <= Len(json_data) /\ (i > k \/ (pc = "exit" /\ i = k))

\* The dict items among the first k items: the index of item k's line.
LineIndex(k) == Cardinality({j \in 1..k : json_data[j].t = "dict"})

\* Item k is a dict whose line is in lines.
HasLine(k) == json_data[k].t = "dict" /\ LineIndex(k) <= Len(lines)

RECURSIVE SumOfLengths(_, _)
SumOfLengths(rows, n) == IF n = 0 THEN 0 ELSE SumOfLengths(rows, n - 1) + rows[n].length

\* C1: every line process_json produces is as long as the lengths of all the
\* schema's fields together, also when Number fields were blanked.
C1_LineLength ==
    \A k \in 1..Len(lines) : Len(lines[k]) = SumOfLengths(metadata, Len(metadata))

\* A line of two fields of different lengths, one of them blanked after an error.
C1_Witness ==
    /\ Returned
    /\ Len(lines) = 1
    /\ Len(metadata) = 2
    /\ metadata[1].length # metadata[2].length
    /\ \E k \in 1..Len(log) : log[k] = "ERROR"

\* The value of a Number field is malformed: it is not empty, and it cannot
\* be parsed as a number or its formatted form is longer than the field.
Malformed(item, row) ==
    /\ row.field_type = "Number"
    /\ ~IsEmptyStr(get(item, row.field_name))
    /\ ~IsNone(get(item, row.field_name))
    /\ \/ ~FormattedNumber(get(item, row.field_name)).ok
       \/ Len(FormattedNumber(get(item, row.field_name)).val) > row.length

\* The column of a row in a line whose malformed fields are blanked and whose
\* other fields are formatted on their own.
BlankedColumn(item, row) ==
    IF Malformed(item, row) THEN Spaces(row.length) ELSE FieldOf(item, row).val

\* C2: a dict item with a malformed Number field still gets its line, in which
\* that field is blank and every other field is as it is formatted on its own.
C2_BlankedFieldOnly ==
    \A k \in 1..Len(json_data) :
        (/\ Passed(k)
         /\ json_data[k].t = "dict"
         /\ \E n \in 1..Len(metadata) : Malformed(json_data[k], metadata[n]))
        => /\ HasLine(k)
           /\ lines[LineIndex(k)] =
                join([n \in 1..Len(metadata) |-> BlankedColumn(json_data[k], sorted(metadata)[n])])

\* C3: when the files load, no value stored under a field name ends the run:
\* it does not exit with status 1, and it ends with the primary file written.
C3_NeverAborts ==
    FilesLoad => /\ exit_status # Exited(1)
                 /\ pc = "exit" => iff_file.exists

\* The value of the only field of the schema in item k.
OnlyValue(k) == get(json_data[k], metadata[1].field_name)

\* Item k is a dict the loop is past, and the schema has one field.
OneFieldPassed(k) == Passed(k) /\ json_data[k].t = "dict" /\ Len(metadata) = 1

\* C4: a field of either type whose key is absent, or whose value is the empty
\* string or null, is formatted as `length` spaces and no error is logged.
C4_EmptyIsBlank ==
    \A k \in 1..Len(json_data) :
        (OneFieldPassed(k) /\ (IsEmptyStr(OnlyValue(k)) \/ IsNone(OnlyValue(k))))
        => /\ HasLine(k)
           /\ lines[LineIndex(k)] = Spaces(metadata[1].length)
           /\ \A n \in 1..Len(log) : log[n] # "ERROR"

\* The text of a field: str(value) for a String field, the comma-grouped
\* number for a Number field, nothing for an empty Number field.
FieldText(value, field_type) ==
    IF field_type # "Number" THEN str(value)
    ELSE IF IsEmptyStr(value) \/ IsNone(value) THEN <<>>
    ELSE FormattedNumber(value).val

\* C5: a field format_field returns has exactly `length` characters: the
\* field's text, cut to its first `length` characters for a String field,
\* followed by spaces only.
C5_ExactWidth ==
    \A k \in 1..Len(json_data) :
        (/\ OneFieldPassed(k)
         /\ HasLine(k)
         /\ \A n \in 1..Len(log) : log[n] # "ERROR")
        => /\ Len(lines[LineIndex(k)]) = metadata[1].length
           /\ \E n \in 0..metadata[1].length :
                /\ n = Min(metadata[1].length, Len(FieldText(OnlyValue(k), metadata[1].field_type)))
                /\ \A c \in 1..n :
                     lines[LineIndex(k)][c] = FieldText(OnlyValue(k), metadata[1].field_type)[c]
                /\ \A c \in (n + 1)..metadata[1].length : lines[LineIndex(k)][c] = " "
           /\ metadata[1].field_type = "Number"
                => Len(FieldText(OnlyValue(k), "Number")) <= metadata[1].length

\* A number shorter than its field, returned with spaces after it.
C5_Witness ==
    /\ Returned
    /\ Len(metadata) = 1
    /\ Len(lines) = 1
    /\ \A n \in 1..Len(log) : log[n] # "ERROR"
    /\ json_data[1].t = "dict"
    /\ metadata[1].field_type = "Number"
    /\ Len(FieldText(OnlyValue(1), "Number")) \in 1..(metadata[1].length - 1)

\* The greatest of the lengths of the lines and of the base name plus six.
RowWidth ==
    CHOOSE m \in {Len(lines[k]) : k \in 1..Len(lines)} \cup {Len(fs.name) + 6} :
        \A x \in {Len(lines[k]) : k \in 1..Len(lines)} \cup {Len(fs.name) + 6} : x <= m

RECURSIVE Power10(_)
Power10(n) == IF n = 0 THEN 1 ELSE 10 * Power10(n - 1)

\* C6: every row of the primary file has the same width, maxRowLength: the
\* header is six digits of maxRowLength, the base name and spaces, and every
\* data line is a line of process_json and spaces.
C6_UniformRows ==
    (iff_file.exists /\ RowWidth <= 999999)
    => /\ Len(iff_file.rows) = 1 + Len(lines)
       /\ \A r \in 1..Len(iff_file.rows) : Len(iff_file.rows[r]) = RowWidth
       /\ \A c \in 1..6 : iff_file.rows[1][c] = DigitChar((RowWidth \div Power10(6 - c)) % 10)
       /\ \A c \in 1..Len(fs.name) : iff_file.rows[1][6 + c] = fs.name[c]
       /\ \A c \in (7 + Len(fs.name))..RowWidth : iff_file.rows[1][c] = " "
       /\ \A k \in 1..Len(lines) :
            /\ \A c \in 1..Len(lines[k]) : iff_file.rows[k + 1][c] = lines[k][c]
            /\ \A c \in (Len(lines[k]) + 1)..RowWidth : iff_file.rows[k + 1][c] = " "

\* A primary file of two data lines shorter than the six digits and the name.
C6_Witness ==
    /\ iff_file.exists
    /\ Len(lines) = 2
    /\ Len(lines[1]) < Len(fs.name) + 6
    /\ Len(fs.name) > 1

\* C7: a run whose configuration, schema or JSON file fails to load never
\* creates an output file and does not end with status 0, and ends with
\* status 1 when it ends; status 0 is reached only with the primary file, and
\* the backup file when one is configured, written in full.
C7_NoOutputOnLoadFailure ==
    /\ ~FilesLoad =>
        /\ ~iff_file.exists
        /\ ~backup_file.exists
        /\ exit_status \in {Running, Exited(1)}
        /\ (exit_status = Running => ENABLED Next)
    /\ exit_status = Exited(0) =>
        /\ iff_file.exists
        /\ Len(iff_file.rows) = 1 + Len(lines)
        /\ fs.backup => (backup_file.exists /\ Len(backup_file.rows) = 1 + Len(lines))

\* A run that ended with status 1 because the JSON file is not JSON.
C7_Witness ==
    /\ exit_status = Exited(1)
    /\ fs.config = "ok"
    /\ fs.schema.status = "ok"
    /\ fs.json.status = "invalid"

\* The order of the schema's rows in a line: ascending position, rows of
\* equal position in the order of the schema file.
ColumnOrder(rows) ==
    CHOOSE p \in [1..Len(rows) -> 1..Len(rows)] :
        \A a, b \in 1..Len(rows) :
            a < b => \/ rows[p[a]].position < rows[p[b]].position
                     \/ rows[p[a]].position = rows[p[b]].position /\ p[a] < p[b]

\* C8: the fields of every line are in ascending order of position, fields of
\* equal position in the order of their rows in the schema file; and the
\* schema list is the one that was read, in the order of the file.
C8_ColumnOrder ==
    /\ pc \in {"json", "process", "backup"} => metadata = fs.schema.rows
    /\ \A k \in 1..Len(json_data) :
        (Passed(k) /\ HasLine(k))
        => lines[LineIndex(k)] =
             join([n \in 1..Len(fs.schema.rows) |->
                     FieldOf(json_data[k], fs.schema.rows[ColumnOrder(fs.schema.rows)[n]]).val])

\* A line of a schema whose rows are out of order and hold a tie.
C8_Witness ==
    /\ Returned
    /\ Len(lines) = 1
    /\ Len(metadata) = 3
    /\ metadata[1].position > metadata[2].position
    /\ metadata[1].position = metadata[3].position
    /\ metadata[1].field_name # metadata[3].field_name

\* The elements of the document process_json makes lines of: the dicts of a
\* top-level list, or the document itself when it is a dict.
DictElements(doc) ==
    IF doc.t = "list" THEN SelectSeq(doc.items, LAMBDA x : x.t = "dict")
    ELSE IF doc.t = "dict" THEN <<doc>>
    ELSE <<>>

\* C9: process_json returns one line per top-level element that is a dict, in
\* the order of the elements; other elements are skipped and do not end the
\* loop; a document that is no list is treated as a list of itself.
C9_OneLinePerDict ==
    fs.json.status = "ok" =>
        /\ Len(lines) <= Len(DictElements(fs.json.doc))
        /\ \A k \in 1..Len(lines) :
             lines[k] = join(LineOf(DictElements(fs.json.doc)[k], metadata).fields)
        /\ Returned => Len(lines) = Len(DictElements(fs.json.doc))

\* Two different lines of a list whose first and third elements are no dicts.
C9_Witness ==
    /\ Returned
    /\ fs.json.doc.t = "list"
    /\ Len(fs.json.doc.items) = 3
    /\ fs.json.doc.items[1].t # "dict"
    /\ Len(lines) = 2
    /\ lines[1] # lines[2]

\* A negative number: the float of the value is finite, below zero and
\* written without an exponent.
IsNegative(value) ==
    /\ float(value).ok
    /\ float(value).val.cls = "fin"
    /\ float(value).val.neg
    /\ float(value).val.ex = <<>>
    /\ float(value).val.ip > 0 \/ float(value).val.fp # <<"0">>

\* '-', the comma-grouped absolute integer part, '.', the fraction digits.
SignedText(f) == <<"-">> \o GroupThousands(NatStr(f.ip)) \o <<".">> \o f.fp

\* C10: a negative number that fits its Number field is formatted with its
\* sign: '-', the comma-grouped absolute integer part, '.', the fraction.
C10_SignKept ==
    \A k \in 1..Len(json_data) :
        (/\ OneFieldPassed(k)
         /\ metadata[1].field_type = "Number"
         /\ ~IsEmptyStr(OnlyValue(k))
         /\ ~IsNone(OnlyValue(k))
         /\ IsNegative(OnlyValue(k))
         /\ Len(SignedText(float(OnlyValue(k)).val)) <= metadata[1].length)
        => /\ HasLine(k)
           /\ lines[LineIndex(k)] = ljust(SignedText(float(OnlyValue(k)).val), metadata[1].length)

=============================================================================
